---- MODULE Spec2Model ----
(***************************************************************************)
(* Model of src/bot.py: a Telegram bot relaying text messages to Gemini.   *)
(*                                                                         *)
(* The state is the module start-up (environment secrets, the two fatal    *)
(* checks, main() registering the three handlers and polling) and, for     *)
(* every update whose handler coroutine was created, the position of that  *)
(* coroutine and the sequence of effects it has produced so far.  Every    *)
(* await of a handler is a suspension point: the effect is issued by one   *)
(* action and resolved (returned or raised) by the next one, so handlers   *)
(* of different updates interleave at exactly the places asyncio allows.   *)
(***************************************************************************)
EXTENDS Integers, Sequences, FiniteSets, TLC

\* ---------------------------------------------------------------- bounds
\* Number of updates whose handlers may be in flight during one polling run.
NumEvents == 2

Events == 1..NumEvents

\* ---------------------------------------------------------------- values
None == "<None>"          \* Python None
NA == "-"                 \* field of an effect that the effect does not have

\* os.getenv yields None for an unset variable, else the string (maybe empty).
EnvValues == {None, "", "secret"}

\* Python truth value of an Optional[str]: None and "" are falsy.
Truthy(s) == s # None /\ s # ""

\* Reply texts of the source.
GREETING == "Privet! Ya bot, rabotayushchiy na osnove Gemini. ..."   \* line 41 (transliterated)
USAGE == "Ya mogu otvechat na tvoi voprosy, ..."   \* line 48 (transliterated)
APOLOGY == "Izvinite, proizoshla oshibka pri obrabotke vashego zaprosa. ..."   \* line 80 (transliterated)

\* Message texts an update may carry (None: a message without text).
MessageTexts == {None, "", " ", "2+2?", "/start", "/help", "/foo"}

\* The senders: one with a username, one without (first_name is always set).
\* A private chat: the conversation is identified with its user.
Users == { [username |-> "ann", first_name |-> "Ann", chat |-> "chat-ann"],
           [username |-> None, first_name |-> "Bob", chat |-> "chat-bob"] }

Updates == { [text |-> t, user |-> u] : t \in MessageTexts, u \in Users }
NoUpdate == [text |-> NA, user |-> [username |-> NA, first_name |-> NA, chat |-> NA]]

\* Texts a Gemini response may carry, and the causes a call may raise.
ModelTexts == {"4", "<b>a & b</b> _x_"}
Causes == {"TimeoutError", "ResourceExhausted"}
NoTextError == "ValueError"       \* response.text on a response without parts
SendErrors == {"NetworkError"}    \* what a Telegram API call may raise

\* ---------------------------------------------------------------- state
VARIABLES
  TELEGRAM_BOT_TOKEN,  \* line 18
  GEMINI_API_KEY,      \* line 19
  runAsScript,         \* __name__ == '__main__' (line 102)
  mainPc,              \* position of the module's top-level code and main()
  exitCode,            \* status of exit(), NotExited while running
  mainLog,             \* what the top-level code and main() logged
  handlers,            \* application handlers, in registration order
  upd,                 \* upd[e]: the update of event e
  callback,            \* callback[e]: the handler coroutine created for e
  pc,                  \* pc[e]: position of that coroutine
  trace                \* trace[e]: effects of that coroutine, in order

vars == <<TELEGRAM_BOT_TOKEN, GEMINI_API_KEY, runAsScript, mainPc, exitCode,
          mainLog, handlers, upd, callback, pc, trace>>

startupVars == <<TELEGRAM_BOT_TOKEN, GEMINI_API_KEY, runAsScript, mainPc,
                 exitCode, mainLog, handlers>>
eventVars == <<upd, callback, pc, trace>>

NotExited == -1

\* An effect of a handler: the source line it comes from and what it is.
Eff(at, op, chat, text, user, cause) ==
  [at |-> at, op |-> op, chat |-> chat, text |-> text, user |-> user, cause |-> cause]

Emit(e, effs) == trace' = [trace EXCEPT ![e] = trace[e] \o effs]

\* ---------------------------------------------------------------- start-up
Init ==
  /\ TELEGRAM_BOT_TOKEN \in EnvValues
  /\ GEMINI_API_KEY \in EnvValues
  /\ runAsScript \in BOOLEAN
  /\ mainPc = "check_token"
  /\ exitCode = NotExited
  /\ mainLog = <<>>
  /\ handlers = <<>>
  /\ upd = [e \in Events |-> NoUpdate]
  /\ callback = [e \in Events |-> "none"]
  /\ pc = [e \in Events |-> "idle"]
  /\ trace = [e \in Events |-> <<>>]

\* lines 22-24
CheckToken ==
  /\ mainPc = "check_token"
  /\ IF ~Truthy(TELEGRAM_BOT_TOKEN)
       THEN /\ mainLog' = Append(mainLog, "ERROR: TELEGRAM_BOT_TOKEN")
            /\ exitCode' = 1
            /\ mainPc' = "exited"
       ELSE /\ mainPc' = "check_key"
            /\ UNCHANGED <<mainLog, exitCode>>
  /\ UNCHANGED <<TELEGRAM_BOT_TOKEN, GEMINI_API_KEY, runAsScript, handlers>>
  /\ UNCHANGED eventVars

\* CheckKey without its exit: the missing key is logged and start-up goes on.
CheckKeyNoExit ==
  /\ mainPc = "check_key"
  /\ mainLog' = IF ~Truthy(GEMINI_API_KEY)
                  THEN Append(mainLog, "ERROR: GEMINI_API_KEY") ELSE mainLog
  /\ mainPc' = "configure"
  /\ UNCHANGED <<TELEGRAM_BOT_TOKEN, GEMINI_API_KEY, runAsScript, handlers, exitCode>>
  /\ UNCHANGED eventVars

\* lines 25-27
CheckKey ==
  /\ mainPc = "check_key"
  /\ IF ~Truthy(GEMINI_API_KEY)
       THEN /\ mainLog' = Append(mainLog, "ERROR: GEMINI_API_KEY")
            /\ exitCode' = 1
            /\ mainPc' = "exited"
       ELSE /\ mainPc' = "configure"
            /\ UNCHANGED <<mainLog, exitCode>>
  /\ UNCHANGED <<TELEGRAM_BOT_TOKEN, GEMINI_API_KEY, runAsScript, handlers>>
  /\ UNCHANGED eventVars

\* lines 31-34 and the guard of line 102
ConfigureGemini ==
  /\ mainPc = "configure"
  /\ mainPc' = IF runAsScript THEN "main" ELSE "imported"
  /\ UNCHANGED <<TELEGRAM_BOT_TOKEN, GEMINI_API_KEY, runAsScript, exitCode,
                 mainLog, handlers>>
  /\ UNCHANGED eventVars

\* The handlers main() registers, in order: lines 91, 92, 96.
Registered ==
  << [filter |-> "command:start", callback |-> "start_command"],
     [filter |-> "command:help", callback |-> "help_command"],
     [filter |-> "text&~command", callback |-> "handle_message"] >>

\* lines 88-96: one add_handler per step
main ==
  /\ mainPc = "main"
  /\ IF Len(handlers) < Len(Registered)
       THEN /\ handlers' = Append(handlers, Registered[Len(handlers) + 1])
            /\ UNCHANGED <<mainPc, mainLog>>
       ELSE /\ mainLog' = Append(mainLog, "INFO: started")      \* line 98
            /\ mainPc' = "polling"                              \* line 100
            /\ UNCHANGED handlers
  /\ UNCHANGED <<TELEGRAM_BOT_TOKEN, GEMINI_API_KEY, runAsScript, exitCode>>
  /\ UNCHANGED eventVars

\* ---------------------------------------------------------------- routing
\* A text the platform parses as a bot command (a leading bot_command entity).
IsCommand(text) == text \in {"/start", "/help", "/foo"}

\* The message handler registered with filters.TEXT alone.
MatchesAnyText(filter, u) ==
  CASE filter = "command:start" -> u.text = "/start"
    [] filter = "command:help" -> u.text = "/help"
    [] filter = "text&~command" -> Truthy(u.text)
    [] OTHER -> FALSE

\* check_update of a registered handler: CommandHandler("start"),
\* CommandHandler("help"), MessageHandler(filters.TEXT & ~filters.COMMAND).
Matches(filter, u) ==
  CASE filter = "command:start" -> u.text = "/start"
    [] filter = "command:help" -> u.text = "/help"
    [] filter = "text&~command" -> Truthy(u.text) /\ ~IsCommand(u.text)
    [] OTHER -> FALSE

\* The application runs the first registered handler that matches, if any.
RECURSIVE Dispatch(_, _)
Dispatch(hs, u) ==
  IF hs = <<>> THEN "none"
  ELSE IF Matches(Head(hs).filter, u) THEN Head(hs).callback
  ELSE Dispatch(Tail(hs), u)

\* What polling can deliver: Telegram accepts no message whose text is only
\* whitespace, so such a text reaches handle_message only from a direct caller.
PolledUpdates == { u \in Updates : u.text # " " }

\* line 100: polling delivers an update and the matching handler's
\* coroutine is created; an update no handler matches is dropped.
Deliver(e, u) ==
  /\ mainPc = "polling"
  /\ pc[e] = "idle"
  /\ \A d \in Events : d < e => pc[d] # "idle"
  /\ upd' = [upd EXCEPT ![e] = u]
  /\ callback' = [callback EXCEPT ![e] = Dispatch(handlers, u)]
  /\ pc' = [pc EXCEPT ![e] = IF Dispatch(handlers, u) = "none" THEN "dropped" ELSE "start"]
  /\ UNCHANGED trace
  /\ UNCHANGED startupVars

\* The module imported by other code (line 102 false): a caller awaits one
\* of the three coroutine functions on an update of its own making.
Call(e, u, h) ==
  /\ mainPc = "imported"
  /\ e = 1
  /\ pc[e] = "idle"
  /\ h \in {"start_command", "help_command", "handle_message"}
  /\ upd' = [upd EXCEPT ![e] = u]
  /\ callback' = [callback EXCEPT ![e] = h]
  /\ pc' = [pc EXCEPT ![e] = "start"]
  /\ UNCHANGED trace
  /\ UNCHANGED startupVars

\* ---------------------------------------------------------------- commands
\* lines 40-43 and 47-50: await reply_text(text), then log the command and
\* update.effective_user.username.
CommandSteps(e, name, text, replyLine, logLine) ==
  /\ callback[e] = name
  /\ \/ /\ pc[e] = "start"
        /\ Emit(e, << Eff(replyLine, "reply_text", upd[e].user.chat, text, NA, NA) >>)
        /\ pc' = [pc EXCEPT ![e] = "await_command_reply"]
     \/ /\ pc[e] = "await_command_reply"
        /\ \/ /\ Emit(e, << Eff(replyLine, "returned", NA, NA, NA, NA),
                            Eff(logLine, "log.info", NA, NA, upd[e].user.username, NA) >>)
              /\ pc' = [pc EXCEPT ![e] = "done"]
           \/ \E s \in SendErrors :
              /\ Emit(e, << Eff(replyLine, "raised", NA, NA, NA, s) >>)
              /\ pc' = [pc EXCEPT ![e] = "raised"]
  /\ UNCHANGED <<upd, callback>>
  /\ UNCHANGED startupVars

\* start_command replying with the text of help_command.
start_command_usage(e) == CommandSteps(e, "start_command", USAGE, 40, 43)

start_command(e) == CommandSteps(e, "start_command", GREETING, 40, 43)

help_command(e) == CommandSteps(e, "help_command", USAGE, 47, 50)

\* ---------------------------------------------------------------- relay
\* line 57
user_message(e) == upd[e].text

\* line 58: username or first_name
user_username(e) ==
  IF Truthy(upd[e].user.username) THEN upd[e].user.username ELSE upd[e].user.first_name

\* The check of line 61 written as "user_message is None".
IsEmptyMessageNoneOnly(text) == text = None

\* line 61: "not user_message"
IsEmptyMessage(text) == ~Truthy(text)

\* line 59
ReceivedLog(e) == Eff(59, "log.info", NA, user_message(e), user_username(e), NA)

\* A reply that escapes markup before sending.
ReplyPayloadEscaped(gemini_response_text) ==
  IF gemini_response_text = "<b>a & b</b> _x_"
    THEN "&lt;b&gt;a &amp; b&lt;/b&gt; \\_x\\_"
    ELSE gemini_response_text

\* line 75: the argument of reply_text is gemini_response_text itself
ReplyPayload(gemini_response_text) == gemini_response_text

\* An apology that reports the exception to the user.
ErrorReplyWithCause(cause) == cause

\* lines 79-81: the argument of reply_text is a literal
ErrorReply(cause) == APOLOGY

\* line 78: the error entry names user_username and the exception
ErrorLog(e, cause) == Eff(78, "log.error", NA, NA, user_username(e), cause)

\* An except block that calls Gemini once more before giving up.
ExceptBlockRetry(e, cause) ==
  << ErrorLog(e, cause),
     Eff(70, "generate_content_async", NA, user_message(e), NA, NA),
     Eff(70, "raised", NA, NA, NA, cause),
     Eff(79, "reply_text", upd[e].user.chat, ErrorReply(cause), NA, NA) >>

\* An except block that issues the apology before logging.
ExceptBlockReplyFirst(e, cause) ==
  << Eff(79, "reply_text", upd[e].user.chat, ErrorReply(cause), NA, NA),
     ErrorLog(e, cause) >>

\* lines 77-81: log the exception, then issue the apology
ExceptBlock(e, cause) ==
  << ErrorLog(e, cause),
     Eff(79, "reply_text", upd[e].user.chat, ErrorReply(cause), NA, NA) >>

\* handle_message without line 65: the Gemini call is issued at once.
HandleBeginNoTyping(e) ==
  /\ pc[e] = "start"
  /\ IF IsEmptyMessage(user_message(e))
       THEN /\ Emit(e, << ReceivedLog(e) >>)
            /\ pc' = [pc EXCEPT ![e] = "done"]
       ELSE /\ Emit(e, << ReceivedLog(e),
                          Eff(70, "generate_content_async", NA, user_message(e), NA, NA) >>)
            /\ pc' = [pc EXCEPT ![e] = "await_gen"]

\* lines 57-65: log the message, return on an empty one, else issue the
\* typing action
HandleBegin(e) ==
  /\ pc[e] = "start"
  /\ IF IsEmptyMessage(user_message(e))
       THEN /\ Emit(e, << ReceivedLog(e) >>)
            /\ pc' = [pc EXCEPT ![e] = "done"]
       ELSE /\ Emit(e, << ReceivedLog(e),
                          Eff(65, "send_action", upd[e].user.chat, "typing", NA, NA) >>)
            /\ pc' = [pc EXCEPT ![e] = "await_typing"]

\* line 65 resolves: it is outside the try, so an exception leaves the
\* coroutine; otherwise line 70 issues the Gemini call
TypingResolved(e) ==
  /\ pc[e] = "await_typing"
  /\ \/ /\ Emit(e, << Eff(65, "returned", NA, NA, NA, NA),
                      Eff(70, "generate_content_async", NA, user_message(e), NA, NA) >>)
        /\ pc' = [pc EXCEPT ![e] = "await_gen"]
     \/ \E s \in SendErrors :
        /\ Emit(e, << Eff(65, "raised", NA, NA, NA, s) >>)
        /\ pc' = [pc EXCEPT ![e] = "raised"]

\* handle_message reading response.text before the try: the exception of a
\* response without text leaves the coroutine.
GenerateResolvedTextUnguarded(e) ==
  /\ pc[e] = "await_gen"
  /\ \/ \E t \in ModelTexts :
        /\ Emit(e, << Eff(70, "returned", NA, t, NA, NA),
                      Eff(72, "log.info", NA, t, NA, NA),
                      Eff(75, "reply_text", upd[e].user.chat, ReplyPayload(t), NA, NA) >>)
        /\ pc' = [pc EXCEPT ![e] = "await_reply"]
     \/ /\ Emit(e, << Eff(70, "returned", NA, None, NA, NA),
                      Eff(71, "raised", NA, NA, NA, NoTextError) >>)
        /\ pc' = [pc EXCEPT ![e] = "raised"]
     \/ \E c \in Causes :
        /\ Emit(e, << Eff(70, "raised", NA, NA, NA, c) >> \o ExceptBlock(e, c))
        /\ pc' = [pc EXCEPT ![e] = "await_apology"]

\* handle_message keeping the response text in a module-level variable that
\* every running coroutine assigns: the reply may carry another event's text.
GenerateResolvedShared(e) ==
  /\ pc[e] = "await_gen"
  /\ \/ \E t \in ModelTexts :
        \E s \in {t} \cup
                 { x.text : x \in UNION { { trace[d][i] : i \in 1..Len(trace[d]) } : d \in Events \ {e} } } :
        /\ s \in ModelTexts
        /\ Emit(e, << Eff(70, "returned", NA, t, NA, NA),
                      Eff(72, "log.info", NA, s, NA, NA),
                      Eff(75, "reply_text", upd[e].user.chat, ReplyPayload(s), NA, NA) >>)
        /\ pc' = [pc EXCEPT ![e] = "await_reply"]
     \/ /\ Emit(e, << Eff(70, "returned", NA, None, NA, NA),
                      Eff(71, "raised", NA, NA, NA, NoTextError) >>
                   \o ExceptBlock(e, NoTextError))
        /\ pc' = [pc EXCEPT ![e] = "await_apology"]
     \/ \E c \in Causes :
        /\ Emit(e, << Eff(70, "raised", NA, NA, NA, c) >> \o ExceptBlock(e, c))
        /\ pc' = [pc EXCEPT ![e] = "await_apology"]

\* line 70 resolves; lines 71-75 on a response, lines 77-81 on an exception
\* of the call or of response.text
GenerateResolved(e) ==
  /\ pc[e] = "await_gen"
  /\ \/ \E t \in ModelTexts :
        /\ Emit(e, << Eff(70, "returned", NA, t, NA, NA),
                      Eff(72, "log.info", NA, t, NA, NA),
                      Eff(75, "reply_text", upd[e].user.chat, ReplyPayload(t), NA, NA) >>)
        /\ pc' = [pc EXCEPT ![e] = "await_reply"]
     \/ /\ Emit(e, << Eff(70, "returned", NA, None, NA, NA),
                      Eff(71, "raised", NA, NA, NA, NoTextError) >>
                   \o ExceptBlock(e, NoTextError))
        /\ pc' = [pc EXCEPT ![e] = "await_apology"]
     \/ \E c \in Causes :
        /\ Emit(e, << Eff(70, "raised", NA, NA, NA, c) >> \o ExceptBlock(e, c))
        /\ pc' = [pc EXCEPT ![e] = "await_apology"]

\* handle_message with the apology in a finally block: it is issued after a
\* delivered model reply too.
ReplyResolvedFinally(e) ==
  /\ pc[e] = "await_reply"
  /\ \/ /\ Emit(e, << Eff(75, "returned", NA, NA, NA, NA),
                      Eff(79, "reply_text", upd[e].user.chat, ErrorReply(NA), NA, NA) >>)
        /\ pc' = [pc EXCEPT ![e] = "await_apology"]
     \/ \E s \in SendErrors :
        /\ Emit(e, << Eff(75, "raised", NA, NA, NA, s) >> \o ExceptBlock(e, s))
        /\ pc' = [pc EXCEPT ![e] = "await_apology"]

\* handle_message sending the model reply in a loop until the send succeeds.
ReplyResolvedRetryLoop(e) ==
  \/ /\ pc[e] = "await_reply"
     /\ \/ /\ Emit(e, << Eff(75, "returned", NA, NA, NA, NA) >>)
           /\ pc' = [pc EXCEPT ![e] = "done"]
        \/ /\ pc' = [pc EXCEPT ![e] = "retry_reply"]
           /\ UNCHANGED trace
  \/ /\ pc[e] = "retry_reply"
     /\ pc' = [pc EXCEPT ![e] = "await_reply"]
     /\ UNCHANGED trace

\* line 75 resolves: it is inside the try, so its exception reaches line 77
ReplyResolved(e) ==
  /\ pc[e] = "await_reply"
  /\ \/ /\ Emit(e, << Eff(75, "returned", NA, NA, NA, NA) >>)
        /\ pc' = [pc EXCEPT ![e] = "done"]
     \/ \E s \in SendErrors :
        /\ Emit(e, << Eff(75, "raised", NA, NA, NA, s) >> \o ExceptBlock(e, s))
        /\ pc' = [pc EXCEPT ![e] = "await_apology"]

\* line 79 resolves: it is inside the except block, its exception leaves
\* the coroutine
ApologyResolved(e) ==
  /\ pc[e] = "await_apology"
  /\ \/ /\ Emit(e, << Eff(79, "returned", NA, NA, NA, NA) >>)
        /\ pc' = [pc EXCEPT ![e] = "done"]
     \/ \E s \in SendErrors :
        /\ Emit(e, << Eff(79, "raised", NA, NA, NA, s) >>)
        /\ pc' = [pc EXCEPT ![e] = "raised"]

\* lines 52-81
handle_message(e) ==
  /\ callback[e] = "handle_message"
  /\ \/ HandleBegin(e)
     \/ TypingResolved(e)
     \/ GenerateResolved(e)
     \/ ReplyResolved(e)
     \/ ApologyResolved(e)
  /\ UNCHANGED <<upd, callback>>
  /\ UNCHANGED startupVars

\* ---------------------------------------------------------------- system
Next ==
  \/ CheckToken
  \/ CheckKey
  \/ ConfigureGemini
  \/ main
  \/ \E e \in Events, u \in PolledUpdates : Deliver(e, u)
  \/ \E e \in Events, u \in Updates, h \in {"start_command", "help_command", "handle_message"} : Call(e, u, h)
  \/ \E e \in Events : start_command(e)
  \/ \E e \in Events : help_command(e)
  \/ \E e \in Events : handle_message(e)

Spec == Init /\ [][Next]_vars

\* The module imported by a caller (line 102 false, both secrets set) that
\* awaits a handler on an update of its own making.  The event loop resumes
\* a coroutine that can run, and each awaited call eventually returns or
\* raises: weak fairness of the steps of handle_message.
CallerInit ==
  /\ Init
  /\ ~runAsScript
  /\ Truthy(TELEGRAM_BOT_TOKEN)
  /\ Truthy(GEMINI_API_KEY)

CallerNext ==
  \/ CheckToken
  \/ CheckKey
  \/ ConfigureGemini
  \/ \E e \in Events, u \in Updates, h \in {"start_command", "help_command", "handle_message"} : Call(e, u, h)
  \/ \E e \in Events : start_command(e)
  \/ \E e \in Events : help_command(e)
  \/ \E e \in Events : handle_message(e)

CallerSpec ==
  CallerInit /\ [][CallerNext]_vars /\ \A e \in Events : WF_vars(handle_message(e))

\* ---------------------------------------------------------------- typing
TypeOK ==
  /\ TELEGRAM_BOT_TOKEN \in EnvValues
  /\ GEMINI_API_KEY \in EnvValues
  /\ mainPc \in {"check_token", "check_key", "configure", "main", "imported", "polling", "exited"}
  /\ exitCode \in {NotExited, 1}
  /\ \A e \in Events :
       /\ upd[e] \in Updates \cup {NoUpdate}
       /\ callback[e] \in {"none", "start_command", "help_command", "handle_message"}
       /\ pc[e] \in {"idle", "dropped", "start", "await_command_reply", "await_typing",
                     "await_gen", "await_reply", "await_apology", "done", "raised"}

\* ---------------------------------------------------------------- reading a trace
Idx(e) == 1..Len(trace[e])

IsReply(x) == x.op = "reply_text"
IsFailure(x) == x.op = "raised"

\* positions of the reply sends event e has issued
ReplyIdx(e) == { i \in Idx(e) : IsReply(trace[e][i]) }

\* the coroutine of e has returned or raised
Finished(e) == pc[e] \in {"done", "raised"}

\* e is a text event handled by handle_message
IsRelayed(e) == callback[e] = "handle_message" /\ pc[e] # "idle"

\* the Gemini call of e raised at position i
GenerateFailedAt(e, i) == trace[e][i].at = 70 /\ trace[e][i].op = "raised"

\* the Gemini call of e returned a response with text at position i
GenerateSucceededAt(e, i) ==
  trace[e][i].at = 70 /\ trace[e][i].op = "returned" /\ trace[e][i].text # None

\* ---------------------------------------------------------------- C1
\* C1: every run of handle_message on a non-empty text issues exactly one
\* reply send to the originating conversation, whatever the outcomes of the
\* typing action, the Gemini call and the send.
C1_ExactlyOneReply ==
  \A e \in Events :
    (IsRelayed(e) /\ Truthy(user_message(e)) /\ Finished(e)) =>
      /\ Cardinality(ReplyIdx(e)) = 1
      /\ \A i \in ReplyIdx(e) : trace[e][i].chat = upd[e].user.chat

C3_FailureGivesApology ==
  \A e \in Events : \A i \in Idx(e) :
    GenerateFailedAt(e, i) =>
      /\ \E k \in ReplyIdx(e) : k > i
      /\ \A k \in ReplyIdx(e) :
           /\ trace[e][k].text = APOLOGY
           /\ trace[e][k].text # trace[e][i].cause
           /\ trace[e][k].text \notin Causes

C3_Witness ==
  \E e \in Events : \E i \in Idx(e) :
    /\ GenerateFailedAt(e, i)
    /\ trace[e][i].cause = "ResourceExhausted"
    /\ pc[e] = "done"
    /\ \E k \in ReplyIdx(e) : k > i

\* ---------------------------------------------------------------- C4
\* C4: when the Gemini call returns text t, the reply send issued for it
\* carries exactly t, to the originating conversation, and when that send
\* succeeds it is the only reply of the event.
C4_SuccessVerbatim ==
  \A e \in Events : \A i \in Idx(e) :
    GenerateSucceededAt(e, i) =>
      /\ \E k \in ReplyIdx(e) :
           /\ k > i
           /\ \A j \in ReplyIdx(e) : j >= k
           /\ trace[e][k].text = trace[e][i].text
           /\ trace[e][k].chat = upd[e].user.chat
      /\ pc[e] = "done" /\ (\A j \in Idx(e) : ~IsFailure(trace[e][j]))
           => Cardinality(ReplyIdx(e)) = 1

C4_Witness ==
  \E e \in Events : \E i \in Idx(e) :
    /\ GenerateSucceededAt(e, i)
    /\ trace[e][i].text = "<b>a & b</b> _x_"
    /\ pc[e] = "done"
    /\ \A j \in Idx(e) : ~IsFailure(trace[e][j])

\* ---------------------------------------------------------------- C5
\* C5: a typing action that fails does not abort handle_message: the
\* coroutine does not raise, and it ends with the Gemini call and a reply
\* send issued.
C5_TypingBestEffort ==
  \A e \in Events : \A i \in Idx(e) :
    (trace[e][i].at = 65 /\ IsFailure(trace[e][i])) =>
      /\ pc[e] # "raised"
      /\ Finished(e) =>
           /\ \E j \in Idx(e) : trace[e][j].op = "generate_content_async"
           /\ ReplyIdx(e) # {}

\* ---------------------------------------------------------------- C6
\* C6: after a reply send of handle_message failed, the failure is logged,
\* no further send is issued for the event, and the coroutine does not raise.
C6_SendFailureIsFinal ==
  \A e \in Events : \A i \in Idx(e) :
    (IsRelayed(e) /\ trace[e][i].at \in {75, 79} /\ IsFailure(trace[e][i])) =>
      /\ \A k \in ReplyIdx(e) : k < i
      /\ pc[e] # "raised"
      /\ \E j \in Idx(e) :
           j > i /\ trace[e][j].op = "log.error" /\ trace[e][j].cause = trace[e][i].cause

\* ---------------------------------------------------------------- C7
\* C7: a start command gets the greeting and a help command the usage text,
\* each as exactly one reply send to the sender's conversation, whoever the
\* sender is and whatever other events were handled.
CommandReplies(e, text) ==
  /\ Cardinality(ReplyIdx(e)) = 1
  /\ \A i \in ReplyIdx(e) :
       trace[e][i].text = text /\ trace[e][i].chat = upd[e].user.chat

C7_CommandsFixedText ==
  \A e \in Events :
    /\ (callback[e] = "start_command" /\ pc[e] \notin {"idle", "start"})
         => CommandReplies(e, GREETING)
    /\ (callback[e] = "help_command" /\ pc[e] \notin {"idle", "start"})
         => CommandReplies(e, USAGE)
    /\ (mainPc = "polling" /\ upd[e].text = "/start" /\ pc[e] # "idle")
         => callback[e] = "start_command"
    /\ (mainPc = "polling" /\ upd[e].text = "/help" /\ pc[e] # "idle")
         => callback[e] = "help_command"

C7_Witness ==
  \E e, d \in Events :
    /\ mainPc = "polling"
    /\ upd[e].text = "/help" /\ pc[e] = "done" /\ upd[e].user.username = None
    /\ upd[d].text = "/start" /\ pc[d] = "done" /\ upd[d].user.username = "ann"
    /\ d > e

\* ---------------------------------------------------------------- C8
\* C8: with either secret unset the top-level code never gets past its two
\* checks: no handler is ever registered, no update is ever handled, and
\* the process exits with status 1.
C8_MissingSecretExits ==
  (TELEGRAM_BOT_TOKEN = None \/ GEMINI_API_KEY = None) =>
    /\ handlers = <<>>
    /\ \A e \in Events : pc[e] = "idle" /\ trace[e] = <<>>
    /\ mainPc \in {"check_token", "check_key", "exited"}
    /\ mainPc = "check_key" => TELEGRAM_BOT_TOKEN # None
    /\ mainPc = "exited" => exitCode > 0

C8_Witness ==
  /\ TELEGRAM_BOT_TOKEN = "secret"
  /\ GEMINI_API_KEY = None
  /\ mainPc = "exited"
  /\ exitCode = 1

C10_StrictOrder ==
  \A e \in Events :
    IsRelayed(e) =>
      /\ \A g \in Idx(e) :
           trace[e][g].op = "generate_content_async" =>
             \E a, b \in Idx(e) :
               /\ a < b /\ b < g
               /\ trace[e][a].op = "send_action"
               /\ trace[e][b].at = 65 /\ trace[e][b].op = "returned"
      /\ \A k \in ReplyIdx(e) :
           \E g, r \in Idx(e) :
             /\ g < r /\ r < k
             /\ trace[e][g].op = "generate_content_async"
             /\ trace[e][r].at = 70 /\ trace[e][r].op \in {"returned", "raised"}
      /\ pc[e] = "await_gen" => ReplyIdx(e) = {}

C10_Witness ==
  \E e, d \in Events :
    /\ e # d
    /\ IsRelayed(e) /\ pc[e] = "done" /\ (\E k \in ReplyIdx(e) : trace[e][k].at = 75)
    /\ IsRelayed(d) /\ pc[d] = "done" /\ (\E k \in ReplyIdx(d) : trace[d][k].at = 79)

\* ---------------------------------------------------------------- C11
\* the callbacks of the registered handlers whose filter accepts update u
MatchingCallbacks(u) ==
  { handlers[i].callback : i \in { j \in 1..Len(handlers) : Matches(handlers[j].filter, u) } }

\* the Gemini call was issued for event e
CalledGemini(e) == \E i \in Idx(e) : trace[e][i].op = "generate_content_async"

\* C11: every update delivered by polling is accepted by at most one
\* registered handler: /start and /help only by their command handler, a
\* non-command non-empty text only by handle_message, an absent or empty text
\* by none (no coroutine, no effect); no command ever reaches the Gemini call.
C11_RouterExclusive ==
  \A e \in Events :
    (mainPc = "polling" /\ pc[e] # "idle") =>
      /\ Cardinality(MatchingCallbacks(upd[e])) <= 1
      /\ callback[e] = "none" <=> MatchingCallbacks(upd[e]) = {}
      /\ callback[e] # "none" => MatchingCallbacks(upd[e]) = {callback[e]}
      /\ upd[e].text = "/start" => callback[e] = "start_command"
      /\ upd[e].text = "/help" => callback[e] = "help_command"
      /\ (Truthy(upd[e].text) /\ ~IsCommand(upd[e].text)) => callback[e] = "handle_message"
      /\ ~Truthy(upd[e].text) => (callback[e] = "none" /\ pc[e] = "dropped" /\ trace[e] = <<>>)
      /\ IsCommand(upd[e].text) => ~CalledGemini(e)
      /\ callback[e] \in {"start_command", "help_command"} => ~CalledGemini(e)

C11_Witness ==
  \E e, d \in Events :
    /\ mainPc = "polling"
    /\ upd[e].text = "" /\ pc[e] = "dropped"
    /\ upd[d].text = "2+2?" /\ callback[d] = "handle_message" /\ CalledGemini(d)

\* ---------------------------------------------------------------- C12
\* the coroutine of e is suspended or about to start
Running(e) ==
  pc[e] \in {"start", "await_typing", "await_gen", "await_reply", "await_apology"}

\* the texts the Gemini call of e returned
OwnTexts(e) == { trace[e][i].text : i \in { j \in Idx(e) : GenerateSucceededAt(e, j) } }

\* every reply of e goes to the conversation of e and carries the text of
\* e's own response or the apology; a running coroutine can always take its
\* next step, whatever the other events are doing
OwnReplyOnly ==
  \A e \in Events :
    IsRelayed(e) =>
      /\ \A k \in ReplyIdx(e) :
           /\ trace[e][k].chat = upd[e].user.chat
           /\ trace[e][k].at = 75 => OwnTexts(e) = {trace[e][k].text}
           /\ trace[e][k].at = 79 => trace[e][k].text = APOLOGY
      /\ Running(e) => ENABLED handle_message(e)

\* a step of one event leaves the update, position and effects of every
\* other event as they are
OneEventPerStep ==
  \A e \in Events :
    (trace'[e] # trace[e] \/ pc'[e] # pc[e]) =>
      \A d \in Events \ {e} :
        trace'[d] = trace[d] /\ pc'[d] = pc[d] /\ upd'[d] = upd[d] /\ callback'[d] = callback[d]

NoTextAt(e, i) == trace[e][i].at = 71 /\ IsFailure(trace[e][i])

\* C13: a response without usable text is handled as a failure: its
\* exception is caught and logged, the one reply issued is the apology to the
\* event's conversation, the coroutine returns once that send returns, and
\* the exception that may leave the coroutine is never the one of
\* response.text (only that of the apology send itself).
C13_NoTextIsFailure ==
  \A e \in Events : \A i \in Idx(e) :
    NoTextAt(e, i) =>
      /\ \E k \in ReplyIdx(e) :
           /\ ReplyIdx(e) = {k}
           /\ k > i
           /\ trace[e][k].at = 79
           /\ trace[e][k].text = APOLOGY
           /\ trace[e][k].chat = upd[e].user.chat
           /\ \E j \in Idx(e) :
                /\ i < j /\ j < k
                /\ trace[e][j].op = "log.error"
                /\ trace[e][j].cause = NoTextError
      /\ pc[e] \in {"await_apology", "done", "raised"}
      /\ (\E j \in Idx(e) : trace[e][j].at = 79 /\ trace[e][j].op = "returned") => pc[e] = "done"
      /\ pc[e] = "raised" =>
           /\ trace[e][Len(trace[e])].at = 79
           /\ trace[e][Len(trace[e])].cause \in SendErrors

C13_Witness ==
  \E e \in Events : \E i \in Idx(e) :
    /\ NoTextAt(e, i)
    /\ pc[e] = "done"
    /\ trace[e][Len(trace[e])].at = 79

\* ---------------------------------------------------------------- C14
\* positions of the Gemini calls event e has issued
CallIdx(e) == { i \in Idx(e) : trace[e][i].op = "generate_content_async" }

\* C14: a non-empty text event never gets a second Gemini call, in
\* particular not after a failure of the call or of a send; it has exactly
\* one call, with the text of the event as prompt, from the moment the typing
\* action returned, hence in every run of handle_message that returns.
C14_OneCompletionCall ==
  \A e \in Events :
    (IsRelayed(e) /\ Truthy(user_message(e))) =>
      /\ Cardinality(CallIdx(e)) <= 1
      /\ \A g \in CallIdx(e) :
           /\ trace[e][g].text = user_message(e)
           /\ \A j \in Idx(e) : (IsFailure(trace[e][j]) /\ trace[e][j].at # 65) => g < j
      /\ pc[e] \in {"await_gen", "await_reply", "await_apology", "done"}
           => Cardinality(CallIdx(e)) = 1
      /\ (\E j \in Idx(e) : IsFailure(trace[e][j]) /\ trace[e][j].at # 65)
           => Cardinality(CallIdx(e)) = 1

C14_Witness ==
  \E e \in Events :
    /\ IsRelayed(e) /\ pc[e] = "raised"
    /\ Cardinality(CallIdx(e)) = 1
    /\ \E j, k \in Idx(e) :
         /\ j < k
         /\ trace[e][j].at = 75 /\ IsFailure(trace[e][j])
         /\ trace[e][k].at = 79 /\ IsFailure(trace[e][k])

\* ---------------------------------------------------------------- C15
\* C15: when every awaited call of a run of handle_message on a non-empty
\* text eventually returns or raises, the run eventually returns or raises;
\* and as long as the Gemini call is unresolved the run has sent no reply
\* (nothing in the handler ends the wait).
C15_Terminates ==
  /\ \A e \in Events :
       (callback[e] = "handle_message" /\ pc[e] = "start" /\ Truthy(user_message(e)))
         ~> Finished(e)
  /\ [](\A e \in Events : (IsRelayed(e) /\ pc[e] = "await_gen") => ReplyIdx(e) = {})

C15_Witness ==
  \E e \in Events :
    /\ IsRelayed(e) /\ Truthy(user_message(e)) /\ pc[e] = "done"
    /\ \E j \in Idx(e) : trace[e][j].at = 75 /\ IsFailure(trace[e][j])

\* ---------------------------------------------------------------- C16
\* positions at which a reply send of e returned: the reply was delivered
DeliveredIdx(e) == { i \in Idx(e) : trace[e][i].at \in {75, 79} /\ trace[e][i].op = "returned" }

\* C16: at most one reply of a text event is delivered; the apology is
\* issued only after the Gemini call, response.text or the send of the model
\* reply raised, and never once a model reply was delivered.
C16_OneDelivered ==
  \A e \in Events :
    IsRelayed(e) =>
      /\ Cardinality(DeliveredIdx(e)) <= 1
      /\ \A d \in DeliveredIdx(e) : \A k \in ReplyIdx(e) : k < d
      /\ \A k \in ReplyIdx(e) :
           trace[e][k].at = 79 =>
             /\ \E j \in Idx(e) :
                  j < k /\ IsFailure(trace[e][j]) /\ trace[e][j].at \in {70, 71, 75}
             /\ \A j \in Idx(e) : ~(trace[e][j].at = 75 /\ trace[e][j].op = "returned")

C16_Witness ==
  \E e \in Events :
    /\ IsRelayed(e) /\ pc[e] = "done"
    /\ Cardinality(ReplyIdx(e)) = 2
    /\ Cardinality(DeliveredIdx(e)) = 1
    /\ \E j \in Idx(e) : trace[e][j].at = 75 /\ IsFailure(trace[e][j])

====
